---------------------------- MODULE Spec2Model ----------------------------
(***************************************************************************)
(* A model of the pop2010 proximity query of reconditematter/svc and of    *)
(* its geocircle, greatell, geomatrix and kfunction services.              *)
(*                                                                         *)
(* Two revisions of the handler are modelled side by side:                 *)
(*   "store" : the in-memory location table + persistent key/value store   *)
(*             (geosearch, popsearch, popsummary, pop2010)                 *)
(*   "bin"   : the per-query scan of the fixed-width binary file           *)
(*                                                                         *)
(* Specifications:                                                         *)
(*   Spec         : one request at a time, every deployment of the files   *)
(*   SpecConc     : NProcs store-backed handlers running side by side      *)
(*   SpecScenario : the three-block dataset of the worked example          *)
(*   SpecPaths    : the geocircle and greatell handlers                    *)
(*   SpecLive     : Spec on one dataset per fault, with fair handlers      *)
(*   SpecMatrix   : the geomatrix handlers                                 *)
(*   SpecStatus   : the pop2010 and geomatrix handlers of one server       *)
(*   SpecK        : NProcs kfunction handlers and their goroutines         *)
(*                                                                         *)
(* float64 values are modelled as fixed-point numbers: a length or a       *)
(* geocentric coordinate is an integer count of 1/Unit metres.  Integer    *)
(* metres (the stored x, y, z, the cube bounds) are plain integers.        *)
(***************************************************************************)
EXTENDS Integers, Sequences, FiniteSets, TLC

(***************************************************************************)
(* Bounds of the model.                                                    *)
(***************************************************************************)
\* resolution of the fixed-point model of float64: 1/Unit metre
Unit == 4
\* the largest number of census blocks in a dataset
MaxRecs == 2
\* the largest elapsed time (msec) the clock can report for one request
MaxDuration == 1

(***************************************************************************)
(* Program constants.                                                      *)
(***************************************************************************)
MinDistance == 1
MaxDistance == 1000000
MaxLat == 90
MaxLon == 180
\* number of slots of an age array: slot 0 plus the 23 brackets
PyrLen == 24
\* number of fields of a demographic payload: the total population, then
\* for each gender its population followed by the 23 brackets
NFields == 1 + PyrLen + PyrLen
MaxInt16 == 32767
MaxInt32 == 2147483647

(***************************************************************************)
(* Arithmetic helpers.                                                     *)
(***************************************************************************)
Abs(v) == IF v < 0 THEN -v ELSE v

\* math.Ceil of the non-negative fixed-point number a, in whole metres
Ceil(a) == (a + Unit - 1) \div Unit

\* round away from zero to whole metres: y := Ceil(Abs(x)); sign restored
round(x) ==
    LET y == Ceil(Abs(x))
    IN  IF x < 0 THEN -y ELSE y

\* int16 / int32 two's-complement addition of two in-range values
Add16(a, b) ==
    LET s == a + b
    IN  IF s > MaxInt16 THEN s - 65536
        ELSE IF s < -MaxInt16 - 1 THEN s + 65536
        ELSE s

Add32(a, b) ==
    IF b > 0 /\ a > MaxInt32 - b
        THEN ((a - MaxInt32) - 1) + ((b - MaxInt32) - 1)
    ELSE IF b < 0 /\ a < (-MaxInt32 - 1) - b
        THEN ((a + MaxInt32) + 1) + ((b + MaxInt32) + 1)
    ELSE a + b

(***************************************************************************)
(* Geodesy primitives (external library geomys).  The model keeps a finite *)
(* sample of the globe: a few geographic points with their geocentric      *)
(* coordinates in 1/Unit metres.  The surface distance is any metric that  *)
(* is never shorter than the straight chord; the model takes the sum of    *)
(* the per-axis separations.                                               *)
(***************************************************************************)
GeoPoints ==
    { <<0, 0>>, <<0, 1>>, <<1, 1>>, <<2, 2>>, <<-90, 180>>,
      <<10, 10>>, <<10, 11>>, <<30, 10>> }

Forward(lat, lon) ==
    CASE <<lat, lon>> = <<0, 0>>     -> <<9, 0, -9>>
      [] <<lat, lon>> = <<0, 1>>     -> <<5, 0, -9>>
      [] <<lat, lon>> = <<1, 1>>     -> <<11, 4, -9>>
      [] <<lat, lon>> = <<2, 2>>     -> <<12, 3, -9>>
      [] <<lat, lon>> = <<-90, 180>> -> <<400, -400, 400>>
      [] <<lat, lon>> = <<10, 10>>   -> <<1000000 * Unit, 0, 0>>
      [] <<lat, lon>> = <<10, 11>>   -> <<1000000 * Unit, 1000 * Unit, 0>>
      [] <<lat, lon>> = <<30, 10>>   -> <<1000000 * Unit, 0, 2000000 * Unit>>

Andoyer(lat1, lon1, lat2, lon2) ==
    LET p == Forward(lat1, lon1)
        q == Forward(lat2, lon2)
    IN  Abs(p[1] - q[1]) + Abs(p[2] - q[2]) + Abs(p[3] - q[3])

\* the straight-line separation on one axis never exceeds the distance
ChordBelowSurface ==
    \A a \in GeoPoints, b \in GeoPoints :
        \A k \in 1..3 :
            Abs(Forward(a[1], a[2])[k] - Forward(b[1], b[2])[k])
                <= Andoyer(a[1], a[2], b[1], b[2])

(***************************************************************************)
(* Decimal text.  A numeric field of a stored record is a string of        *)
(* decimal digits, modelled as a sequence of digits; musti parses it.      *)
(***************************************************************************)
RECURSIVE ToDec(_)
ToDec(n) == IF n < 10 THEN <<n>> ELSE Append(ToDec(n \div 10), n % 10)

RECURSIVE ParseDec(_, _)
ParseDec(s, acc) ==
    IF s = <<>> THEN acc ELSE ParseDec(Tail(s), 10 * acc + Head(s))

musti(s) == ParseDec(s, 0)

(***************************************************************************)
(* The census data the files are generated from.  A block kind is a        *)
(* geographic point with a demographic profile; go index j of a payload is *)
(* element j + 1 of the sequence:                                          *)
(*   0 total, 1 male total, 2..24 male brackets 1..23,                     *)
(*   25 female total, 26..48 female brackets 1..23.                        *)
(***************************************************************************)
ProfileValue(t, j) ==
    CASE t = "small" ->
           CASE j = 0  -> 3
             [] j = 1  -> 1
             [] j = 6  -> 1
             [] j = 25 -> 2
             [] j = 26 -> 1
             [] j = 48 -> 1
             [] OTHER  -> 0
      [] t = "big" ->
           CASE j = 0  -> 40000
             [] j = 1  -> 20000
             [] j = 6  -> 20000
             [] j = 25 -> 20000
             [] j = 48 -> 20000
             [] OTHER  -> 0
      [] t = "A" ->
           CASE j = 0  -> 100
             [] j = 1  -> 40
             [] j = 2  -> 40
             [] j = 25 -> 60
             [] j = 26 -> 60
             [] OTHER  -> 0
      [] t = "B" ->
           CASE j = 0  -> 50
             [] j = 1  -> 20
             [] j = 24 -> 20
             [] j = 25 -> 30
             [] j = 48 -> 30
             [] OTHER  -> 0
      [] t = "C" ->
           CASE j = 0  -> 10
             [] j = 1  -> 5
             [] j = 2  -> 5
             [] j = 25 -> 5
             [] j = 26 -> 5
             [] OTHER  -> 0

\* the comma-separated store value of a block, already split at the commas
Payload(t) == [j \in 1..NFields |-> ToDec(ProfileValue(t, j - 1))]

BlockKinds ==
    << <<0, 0, "small">>, <<0, 1, "big">>, <<1, 1, "big">>,
       <<2, 2, "small">>, <<-90, 180, "small">> >>

\* how the generator of the data files rounded a coordinate to whole metres:
\* to the nearest metre (half away from zero), or away from zero
Roundings == {"nearest", "away"}

Nearest(v) ==
    LET n == (2 * Abs(v) + Unit) \div (2 * Unit)
    IN  IF v < 0 THEN -n ELSE n

StoredRound(mode, v) == IF mode = "nearest" THEN Nearest(v) ELSE round(v)

\* one record of the data file: the location columns and, in the binary
\* file, the NFields 16-bit demographic columns that follow them
Row(id, kind, mode) ==
    LET xyz == Forward(kind[1], kind[2])
    IN  [ id  |-> id,
          pop |-> ProfileValue(kind[3], 0),
          lat |-> kind[1],
          lon |-> kind[2],
          x   |-> StoredRound(mode, xyz[1]),
          y   |-> StoredRound(mode, xyz[2]),
          z   |-> StoredRound(mode, xyz[3]),
          ext |-> [j \in 1..NFields |-> ProfileValue(kind[3], j - 1)] ]

\* a dataset: up to MaxRecs distinct blocks, in the order of BlockKinds
Selections ==
    UNION { { s \in [1..n -> 1..Len(BlockKinds)] :
                \A i \in 1..(n - 1) : s[i] < s[i + 1] } : n \in 0..MaxRecs }

Datasets == { [i \in 1..Len(s) |-> BlockKinds[s[i]]] : s \in Selections }

\* what can be wrong with the deployed files
Faults == {"none", "nofile", "badrow", "nodb", "nokey", "nobin", "partial"}

\* a deployment: the blocks, how their coordinates were rounded, and at
\* most one fault (the faulty deployments use the nearest-metre files)
Deployments ==
    { d \in [kinds : Datasets, mode : Roundings, fault : Faults] :
        d.fault = "none" \/ d.mode = "nearest" }

(***************************************************************************)
(* State.                                                                  *)
(***************************************************************************)
VARIABLES
    disk,       \* the deployed files: [kinds, mode, fault], never written
    state,      \* "Uninitialized", "Ready" or "Failed"
    poplocs,    \* var poplocs []poploc
    popbddb,    \* var popbddb *badger.DB: "nil" or "open"
    pc,         \* position of the request being served
    req,        \* the request: [variant, distance, lat, lon, direct]
    cube,       \* xmin, xmax, ymin, ymax, zmin, zmax
    idx,        \* loop position of the running scan
    keys,       \* ids collected by geosearch
    recs,       \* values fetched by popsearch
    acc,        \* accumulators of the binary scan
    resp,       \* the response written, or NoResp
    audit,      \* what the request touched so far
    first,      \* the previous request and its outcome, when this one follows it
    workers,    \* the handlers running side by side: each one's locals
    written,    \* the statuses written to the ResponseWriter of the request
    mat,        \* the locals of a geomatrix handler: ok, loc
    kfun,       \* the kfunction handlers in flight, one per process slot
    gomaxprocs  \* the process-wide setting of runtime.GOMAXPROCS; 0 is
                \* the default the runtime starts with

vars == << disk, state, poplocs, popbddb, pc, req, cube, idx, keys, recs,
           acc, resp, audit, first, workers, written, mat, kfun,
           gomaxprocs >>

\* the state of the kfunction service
kvars == << kfun, gomaxprocs >>

\* the locals of a geomatrix handler before matparse has returned
NoMat == [ok |-> FALSE, loc |-> <<>>]

\* the statuses written once a step has left the response at r
Written(r) == IF r = resp THEN written ELSE Append(written, r.status)

NoResp == [status |-> 0]
NoReq == [variant |-> "none"]
NoCube == <<0, 0, 0, 0, 0, 0>>
NoAudit == [opens |-> 0, reads |-> 0, lookups |-> 0, exact |-> <<>>,
            matched |-> <<>>]
NoFirst == [set |-> FALSE]
ZeroPyr == [k \in 1..PyrLen |-> 0]
ZeroAcc == [filter2 |-> 0, population |-> 0, mpopulation |-> 0,
            fpopulation |-> 0, mpyr |-> ZeroPyr, fpyr |-> ZeroPyr]

\* the number of handlers that run side by side
NProcs == 2
Procs == 1..NProcs

\* the locals of a handler that serves no request
IdleWorker == [pc |-> "idle", req |-> NoReq, cube |-> NoCube, idx |-> 0,
               keys |-> <<>>, recs |-> <<>>, resp |-> NoResp]

\* a process slot with no kfunction request in it
IdleK == [pc |-> "idle", count |-> <<FALSE, 0>>, ncpu |-> <<FALSE, 0>>,
          h |-> <<>>, go |-> {}, wg |-> 0, resp |-> NoResp]

\* the files on disk, derived from the deployment
BinRecords == Len(disk.kinds)
BinRecord(i) == Row(i, disk.kinds[i], disk.mode)
GeoFile == [i \in 1..Len(disk.kinds) |->
               [f \in {"id", "pop", "lat", "lon", "x", "y", "z"} |->
                   BinRecord(i)[f]]]

Init ==
    /\ disk \in Deployments
    /\ state = "Uninitialized"
    /\ poplocs = <<>>
    /\ popbddb = "nil"
    /\ pc = "idle"
    /\ req = NoReq
    /\ cube = NoCube
    /\ idx = 0
    /\ keys = <<>>
    /\ recs = <<>>
    /\ acc = ZeroAcc
    /\ resp = NoResp
    /\ audit = NoAudit
    /\ first = NoFirst
    /\ workers = [p \in Procs |-> IdleWorker]
    /\ written = <<>>
    /\ mat = NoMat
    /\ kfun = [p \in Procs |-> IdleK]
    /\ gomaxprocs = 0

(***************************************************************************)
(* Startup: func init() loads the location file, then opens the store;     *)
(* either failure panics and the process never serves.                     *)
(***************************************************************************)
\* a startup that goes on to serve whatever the load returned
InitServiceIgnoreErr ==
    /\ state = "Uninitialized"
    /\ state' = "Ready"
    /\ poplocs' = IF disk.fault \in {"nofile", "badrow"} THEN <<>> ELSE GeoFile
    /\ popbddb' = IF disk.fault = "nodb" THEN "nil" ELSE "open"
    /\ UNCHANGED << kvars, mat, written, workers, disk, pc, req, cube, idx, keys, recs, acc, resp, audit,
                    first >>

InitService ==
    /\ state = "Uninitialized"
    /\ IF disk.fault \in {"nofile", "badrow"}
         THEN /\ state' = "Failed"
              /\ UNCHANGED << poplocs, popbddb >>
       ELSE IF disk.fault = "nodb"
         THEN /\ state' = "Failed"
              /\ poplocs' = GeoFile
              /\ UNCHANGED popbddb
       ELSE /\ state' = "Ready"
            /\ poplocs' = GeoFile
            /\ popbddb' = "open"
    /\ UNCHANGED << kvars, mat, written, workers, disk, pc, req, cube, idx, keys, recs, acc, resp, audit,
                    first >>

(***************************************************************************)
(* Request parameters.  A path parameter is text: <<TRUE, n>> is a numeral *)
(* that parses to n, <<FALSE, 0>> is text the parser rejects.              *)
(***************************************************************************)
DistInputs ==
    { <<FALSE, 0>>, <<TRUE, 0>>, <<TRUE, 1>>, <<TRUE, 2>>,
      <<TRUE, MaxDistance>>, <<TRUE, MaxDistance + 1>> }

QueryPoints == { <<0, 0>>, <<-90, 180>> }

PlaceInputs ==
    { << <<TRUE, p[1]>>, <<TRUE, p[2]>> >> : p \in QueryPoints }
    \cup { << <<TRUE, MaxLat + 1>>, <<TRUE, 0>> >>,
           << <<TRUE, 0>>, <<TRUE, -MaxLon - 1>> >>,
           << <<FALSE, 0>>, <<TRUE, 0>> >>,
           << <<TRUE, 0>>, <<FALSE, 0>> >> }

\* distances a direct caller of geosearch may pass
DirectDists == { -1, 0, 1, 2, MaxDistance + 1 }

(***************************************************************************)
(* The checks of the handler.                                              *)
(***************************************************************************)
\* a handler that forgets the upper limit of the distance
DistanceOKNoUpper(d) == d[1] /\ MinDistance <= d[2]

DistanceOK(d) == d[1] /\ MinDistance <= d[2] /\ d[2] <= MaxDistance
LatOK(l) == l[1] /\ -MaxLat <= l[2] /\ l[2] <= MaxLat
LonOK(l) == l[1] /\ -MaxLon <= l[2] /\ l[2] <= MaxLon

Accepts(r) == DistanceOK(r.distance) /\ LatOK(r.lat) /\ LonOK(r.lon)

(***************************************************************************)
(* The two-phase filter.                                                   *)
(***************************************************************************)
\* xmin, xmax, ymin, ymax, zmin, zmax in whole metres; dist in metres
\* a cube whose side is the distance, not twice the distance
CubeHalf(lat, lon, dist) ==
    LET xyz == Forward(lat, lon)
        d   == (dist * Unit) \div 2
    IN  << round(xyz[1] - d), round(xyz[1] + d),
           round(xyz[2] - d), round(xyz[2] + d),
           round(xyz[3] - d), round(xyz[3] + d) >>

Cube(lat, lon, dist) ==
    LET xyz == Forward(lat, lon)
        d   == dist * Unit
    IN  << round(xyz[1] - d), round(xyz[1] + d),
           round(xyz[2] - d), round(xyz[2] + d),
           round(xyz[3] - d), round(xyz[3] + d) >>

\* a first phase that looks at the x axis only
InCubeXOnly(c, loc) == c[1] <= loc.x /\ loc.x <= c[2]

InCube(c, loc) ==
    /\ c[1] <= loc.x /\ loc.x <= c[2]
    /\ c[3] <= loc.y /\ loc.y <= c[4]
    /\ c[5] <= loc.z /\ loc.z <= c[6]

Near(lat, lon, dist, loc) ==
    Andoyer(lat, lon, loc.lat, loc.lon) <= dist * Unit

\* a filter that stops after the cube
AdmitCubeOnly(c, lat, lon, dist, loc) == InCube(c, loc)

Admit(c, lat, lon, dist, loc) == InCube(c, loc) /\ Near(lat, lon, dist, loc)

\* the audit trail after one record went through the filter
Examined(a, c, lat, lon, dist, loc) ==
    [a EXCEPT
        !.reads   = @ + 1,
        !.exact   = IF InCube(c, loc) THEN Append(@, loc.id) ELSE @,
        !.matched = IF Admit(c, lat, lon, dist, loc)
                       THEN Append(@, loc.id) ELSE @]

(***************************************************************************)
(* The persistent store and popsearch.                                     *)
(***************************************************************************)
\* txn.Get followed by item.ValueCopy; under the fault "nokey" the lookup of
\* block 1 fails (the key is absent, or its value cannot be read)
StoreGet(key) ==
    IF disk.fault = "nokey" /\ key = 1
        THEN [ok |-> FALSE, val |-> <<>>]
        ELSE [ok |-> TRUE, val |-> Payload(disk.kinds[key][3])]

\* a lookup loop that steps over a key it cannot read
RECURSIVE popsearchSkip(_, _, _)
popsearchSkip(ks, k, vals) ==
    IF k > Len(ks) THEN [err |-> FALSE, vals |-> vals, gets |-> Len(ks)]
    ELSE LET item == StoreGet(ks[k])
         IN  IF ~item.ok
                 THEN popsearchSkip(ks, k + 1, vals)
                 ELSE popsearchSkip(ks, k + 1, Append(vals, item.val))

RECURSIVE popsearchFrom(_, _, _)
popsearchFrom(ks, k, vals) ==
    IF k > Len(ks) THEN [err |-> FALSE, vals |-> vals, gets |-> Len(ks)]
    ELSE LET item == StoreGet(ks[k])
         IN  IF ~item.ok
                 THEN [err |-> TRUE, vals |-> <<>>, gets |-> k]
                 ELSE popsearchFrom(ks, k + 1, Append(vals, item.val))

\* a popsearch that reports an empty list of keys as a failed lookup
popsearchNonEmpty(ks) ==
    IF ks = <<>> THEN [err |-> TRUE, vals |-> <<>>, gets |-> 0]
    ELSE popsearchFrom(ks, 1, <<>>)

popsearch(ks) == popsearchFrom(ks, 1, <<>>)

(***************************************************************************)
(* popsummary and mkpyramid.                                               *)
(***************************************************************************)
ZeroSum == [pop |-> 0, mpop |-> 0, fpop |-> 0, mpyr |-> ZeroPyr,
            fpyr |-> ZeroPyr]

\* a loop body that reads the female brackets one field too early
AddRecFemaleOff(t, r) ==
    [ pop  |-> t.pop + musti(r[0 + 1]),
      mpop |-> t.mpop + musti(r[1 + 1]),
      fpop |-> t.fpop + musti(r[25 + 1]),
      mpyr |-> [k \in 1..PyrLen |-> t.mpyr[k] + musti(r[((k - 1) + 1) + 1])],
      fpyr |-> [k \in 1..PyrLen |-> t.fpyr[k] + musti(r[((k - 1) + 24) + 1])] ]

\* a loop body that assigns the total population instead of adding to it
AddRecAssign(t, r) ==
    [ pop  |-> musti(r[0 + 1]),
      mpop |-> t.mpop + musti(r[1 + 1]),
      fpop |-> t.fpop + musti(r[25 + 1]),
      mpyr |-> [k \in 1..PyrLen |-> t.mpyr[k] + musti(r[((k - 1) + 1) + 1])],
      fpyr |-> [k \in 1..PyrLen |-> t.fpyr[k] + musti(r[((k - 1) + 25) + 1])] ]

\* the loop body: r is the record split at the commas
AddRec(t, r) ==
    [ pop  |-> t.pop + musti(r[0 + 1]),
      mpop |-> t.mpop + musti(r[1 + 1]),
      fpop |-> t.fpop + musti(r[25 + 1]),
      mpyr |-> [k \in 1..PyrLen |-> t.mpyr[k] + musti(r[((k - 1) + 1) + 1])],
      fpyr |-> [k \in 1..PyrLen |-> t.fpyr[k] + musti(r[((k - 1) + 25) + 1])] ]

RECURSIVE popsummaryFrom(_, _)
popsummaryFrom(rs, t) ==
    IF rs = <<>> THEN t ELSE popsummaryFrom(Tail(rs), AddRec(t, Head(rs)))

popsummary(rs) == popsummaryFrom(rs, ZeroSum)

\* buf[0] is ignored; bracket b is buf[b]
mkpyramid(buf) == [b \in 1..(PyrLen - 1) |-> buf[b + 1]]

(***************************************************************************)
(* The accumulation of the binary scan: int32 totals, int16 age arrays.    *)
(***************************************************************************)
\* field index of the male and the female population among the 16-bit columns
ColMpop == 1
ColFpop == ColMpop + PyrLen

AccRec(a, rec) ==
    [ filter2     |-> a.filter2 + 1,
      population  |-> Add32(a.population, rec.pop),
      mpopulation |-> Add32(a.mpopulation, rec.ext[ColMpop + 1]),
      fpopulation |-> Add32(a.fpopulation, rec.ext[ColFpop + 1]),
      mpyr |-> [k \in 1..PyrLen |->
                   Add16(a.mpyr[k], rec.ext[(ColMpop + (k - 1)) + 1])],
      fpyr |-> [k \in 1..PyrLen |->
                   Add16(a.fpyr[k], rec.ext[(ColFpop + (k - 1)) + 1])] ]

(***************************************************************************)
(* The binary file as a stream of bytes.                                   *)
(***************************************************************************)
\* length of one record of the binary file, in bytes
RecordSize == 151

\* the bytes after the last whole record: a file that was cut short ends
\* with a piece of a record
TailBytes == IF disk.fault = "partial" THEN RecordSize - 1 ELSE 0

FileSize == BinRecords * RecordSize + TailBytes

\* a reader that takes a short read for the end of the file
ReadFullLenient(off) ==
    IF FileSize - off >= RecordSize THEN "ok" ELSE "EOF"

\* io.ReadFull(rdr, buf) with the reader at byte offset off: a whole record,
\* io.EOF when no byte is left, io.ErrUnexpectedEOF after a short read
ReadFull(off) ==
    IF FileSize - off >= RecordSize THEN "ok"
    ELSE IF FileSize - off = 0 THEN "EOF"
    ELSE "ErrUnexpectedEOF"

\* the offset of the reader before read number i
Offset(i) == (i - 1) * RecordSize

(***************************************************************************)
(* The responses.                                                          *)
(***************************************************************************)
HS400 == [status |-> 400]
HS500 == [status |-> 500]

\* the JSON object of a successful query, field by field
Result(t, r, blocks, pop, fpop, mpop, fpyr, mpyr) ==
    [ status         |-> 200,
      duration_msec  |-> t,
      distance       |-> r.distance[2],
      lat            |-> r.lat[2],
      lon            |-> r.lon[2],
      blocks         |-> blocks,
      pop2010        |-> pop,
      pop2010_female |-> fpop,
      pop2010_male   |-> mpop,
      ages_female    |-> mkpyramid(fpyr),
      ages_male      |-> mkpyramid(mpyr) ]

\* accumulators that outlive the request
InitAccStale == acc

\* the accumulators a binary scan starts from
InitAcc == ZeroAcc

(***************************************************************************)
(* A request arrives at the router.                                        *)
(***************************************************************************)
Request(v, d, place) ==
    /\ state = "Ready"
    /\ pc = "idle"
    /\ req' = [variant |-> v, distance |-> d, lat |-> place[1],
               lon |-> place[2], direct |-> FALSE]
    /\ pc' = "validate"
    /\ UNCHANGED << kvars, mat, written, workers, disk, state, poplocs, popbddb, cube, idx, keys, recs,
                    acc, resp, audit, first >>

\* pop2010, from the parameter parsing to the last range check
Validate ==
    /\ pc = "validate"
    /\ IF ~Accepts(req)
         THEN /\ resp' = HS400
              /\ pc' = "done"
              /\ UNCHANGED << cube, idx, keys >>
       ELSE IF req.variant = "store"
         THEN /\ pc' = "geosearch"
              /\ cube' = Cube(req.lat[2], req.lon[2], req.distance[2])
              /\ idx' = 1
              /\ keys' = <<>>
              /\ UNCHANGED resp
       ELSE /\ pc' = "open"
            /\ UNCHANGED << resp, cube, idx, keys >>
    /\ written' = Written(resp')
    /\ UNCHANGED << kvars, mat, workers, disk, state, poplocs, popbddb, req, recs, acc, audit,
                    first >>

\* geosearch called by some other caller, with no handler in front of it
DirectCall(p, dist) ==
    /\ state = "Ready"
    /\ pc = "idle"
    /\ req' = [variant |-> "store", distance |-> <<TRUE, dist>>,
               lat |-> <<TRUE, p[1]>>, lon |-> <<TRUE, p[2]>>,
               direct |-> TRUE]
    /\ pc' = "geosearch"
    /\ cube' = Cube(p[1], p[2], dist)
    /\ idx' = 1
    /\ keys' = <<>>
    /\ UNCHANGED << kvars, mat, written, workers, disk, state, poplocs, popbddb, recs, acc, resp, audit,
                    first >>

\* a loop that clears the population of the record it has visited
GeoSearchStepMark ==
    /\ pc = "geosearch"
    /\ idx <= Len(poplocs)
    /\ LET loc == poplocs[idx]
       IN  /\ keys' = IF Admit(cube, req.lat[2], req.lon[2],
                               req.distance[2], loc)
                         THEN Append(keys, loc.id) ELSE keys
           /\ audit' = Examined(audit, cube, req.lat[2], req.lon[2],
                                req.distance[2], loc)
    /\ idx' = idx + 1
    /\ poplocs' = [poplocs EXCEPT ![idx].pop = 0]
    /\ UNCHANGED << kvars, mat, written, workers, disk, state, popbddb, pc, req, cube, recs, acc,
                    resp, first >>

\* geosearch: one iteration of the loop over locs
GeoSearchStep ==
    /\ pc = "geosearch"
    /\ idx <= Len(poplocs)
    /\ LET loc == poplocs[idx]
       IN  /\ keys' = IF Admit(cube, req.lat[2], req.lon[2],
                               req.distance[2], loc)
                         THEN Append(keys, loc.id) ELSE keys
           /\ audit' = Examined(audit, cube, req.lat[2], req.lon[2],
                                req.distance[2], loc)
    /\ idx' = idx + 1
    /\ UNCHANGED << kvars, mat, written, workers, disk, state, poplocs, popbddb, pc, req, cube, recs, acc,
                    resp, first >>

\* geosearch: the loop is over, ids is returned
GeoSearchReturn ==
    /\ pc = "geosearch"
    /\ idx > Len(poplocs)
    /\ pc' = IF req.direct THEN "returned" ELSE "popsearch"
    /\ UNCHANGED << kvars, mat, written, workers, disk, state, poplocs, popbddb, req, cube, idx, keys,
                    recs, acc, resp, audit, first >>

\* pop2010: recs, err := popsearch(popbddb, keys)
PopSearch ==
    /\ pc = "popsearch"
    /\ LET r == popsearch(keys)
       IN  /\ audit' = [audit EXCEPT !.lookups = @ + r.gets]
           /\ recs' = r.vals
           /\ IF r.err
                THEN resp' = HS500 /\ pc' = "done"
                ELSE resp' = resp /\ pc' = "summary"
    /\ written' = Written(resp')
    /\ UNCHANGED << kvars, mat, workers, disk, state, poplocs, popbddb, req, cube, idx, keys,
                    acc, first >>

\* pop2010: popsummary, the result object, HS200j
Summary ==
    /\ pc = "summary"
    /\ \E t \in 0..MaxDuration :
         LET s == popsummary(recs)
         IN  resp' = Result(t, req, Len(recs), s.pop, s.fpop, s.mpop,
                            s.fpyr, s.mpyr)
    /\ pc' = "done"
    /\ written' = Written(resp')
    /\ UNCHANGED << kvars, mat, workers, disk, state, poplocs, popbddb, req, cube, idx, keys,
                    recs, acc, audit, first >>

(***************************************************************************)
(* The binary-scan revision of pop2010.                                    *)
(***************************************************************************)
\* os.Open, the reader, the cube and the zeroed accumulators
Open ==
    /\ pc = "open"
    /\ audit' = [audit EXCEPT !.opens = @ + 1]
    /\ IF disk.fault = "nobin"
         THEN /\ resp' = HS500
              /\ pc' = "done"
              /\ UNCHANGED << cube, idx, acc >>
         ELSE /\ cube' = Cube(req.lat[2], req.lon[2], req.distance[2])
              /\ acc' = InitAcc
              /\ idx' = 1
              /\ pc' = "scan"
              /\ UNCHANGED resp
    /\ written' = Written(resp')
    /\ UNCHANGED << kvars, mat, workers, disk, state, poplocs, popbddb, req, keys, recs, first >>

\* one iteration of the read loop that got a whole record
ScanStep ==
    /\ pc = "scan"
    /\ ReadFull(Offset(idx)) = "ok"
    /\ LET rec == BinRecord(idx)
       IN  /\ acc' = IF Admit(cube, req.lat[2], req.lon[2],
                              req.distance[2], rec)
                        THEN AccRec(acc, rec) ELSE acc
           /\ audit' = Examined(audit, cube, req.lat[2], req.lon[2],
                                req.distance[2], rec)
    /\ idx' = idx + 1
    /\ UNCHANGED << kvars, mat, written, workers, disk, state, poplocs, popbddb, pc, req, cube, keys, recs,
                    resp, first >>

\* where the handler goes after a read error: it answers and returns
ReadAgain == "scan"

AfterReadError == "done"

\* the read at the end of the file: io.EOF, or a short read
ScanEnd ==
    /\ pc = "scan"
    /\ ReadFull(Offset(idx)) # "ok"
    /\ IF ReadFull(Offset(idx)) = "EOF"
         THEN resp' = resp /\ pc' = "finish"
         ELSE resp' = HS500 /\ pc' = AfterReadError
    /\ written' = Written(resp')
    /\ UNCHANGED << kvars, mat, workers, disk, state, poplocs, popbddb, req, cube, idx, keys,
                    recs, acc, audit, first >>

\* the result object and HS200j
Finish ==
    /\ pc = "finish"
    /\ \E t \in 0..MaxDuration :
         resp' = Result(t, req, acc.filter2, acc.population,
                        acc.fpopulation, acc.mpopulation, acc.fpyr, acc.mpyr)
    /\ pc' = "done"
    /\ written' = Written(resp')
    /\ UNCHANGED << kvars, mat, workers, disk, state, poplocs, popbddb, req, cube, idx, keys,
                    recs, acc, audit, first >>

(***************************************************************************)
(* The client.                                                             *)
(***************************************************************************)
\* the client of an accepted request asks again: same place, same or larger
\* distance
Followup(d) ==
    /\ pc = "done"
    /\ ~first.set
    /\ Accepts(req)
    /\ DistanceOK(d)
    /\ d[2] >= req.distance[2]
    /\ first' = [set |-> TRUE, req |-> req, resp |-> resp,
                 matched |-> audit.matched]
    /\ req' = [req EXCEPT !.distance = d]
    /\ pc' = "validate"
    /\ cube' = NoCube
    /\ idx' = 0
    /\ keys' = <<>>
    /\ recs' = <<>>
    /\ resp' = NoResp
    /\ audit' = NoAudit
    /\ written' = <<>>
    /\ UNCHANGED << kvars, mat, workers, disk, state, poplocs, popbddb, acc >>

\* the handler (or geosearch) has returned; the next request may come
Return ==
    /\ pc \in {"done", "returned"}
    /\ pc' = "idle"
    /\ req' = NoReq
    /\ cube' = NoCube
    /\ idx' = 0
    /\ keys' = <<>>
    /\ recs' = <<>>
    /\ acc' = ZeroAcc
    /\ resp' = NoResp
    /\ audit' = NoAudit
    /\ first' = NoFirst
    /\ written' = <<>>
    /\ mat' = NoMat
    /\ UNCHANGED << kvars, workers, disk, state, poplocs, popbddb >>

Next ==
    \/ InitService
    \/ \E v \in {"store", "bin"}, d \in DistInputs, place \in PlaceInputs :
           Request(v, d, place)
    \/ Validate
    \/ \E p \in QueryPoints, dist \in DirectDists : DirectCall(p, dist)
    \/ GeoSearchStep
    \/ GeoSearchReturn
    \/ PopSearch
    \/ Summary
    \/ Open
    \/ ScanStep
    \/ ScanEnd
    \/ Finish
    \/ \E d \in DistInputs : Followup(d)
    \/ Return

Spec == Init /\ [][Next]_vars

(***************************************************************************)
(* The same service on one dataset per fault, for the progress of a query. *)
(* A handler runs in a goroutine of its own, and none of its steps waits   *)
(* for anything but the local file and store, so a handler that can take   *)
(* a step eventually takes it; nothing obliges a client to send a request  *)
(* or a caller to call geosearch.                                          *)
(***************************************************************************)
LiveDeployments ==
    { d \in Deployments :
        /\ d.kinds = SubSeq(BlockKinds, 1, MaxRecs)
        /\ d.mode = "nearest"
        /\ d.fault \in {"none", "nokey", "nobin", "partial"} }

InitLive == Init /\ disk \in LiveDeployments

\* the steps of the pop2010 handler and of geosearch
HandlerStep ==
    \/ Validate
    \/ GeoSearchStep
    \/ GeoSearchReturn
    \/ PopSearch
    \/ Summary
    \/ Open
    \/ ScanStep
    \/ ScanEnd
    \/ Finish

SpecLive == InitLive /\ [][Next]_vars /\ WF_vars(HandlerStep)

(***************************************************************************)
(* Concurrent service.  net/http runs every request in a goroutine of its  *)
(* own; the store-backed handlers share poplocs and popbddb and keep       *)
(* everything else in locals.  One step of a handler is one action; the    *)
(* steps of different handlers interleave freely.                          *)
(***************************************************************************)
\* the deployments served concurrently: the first MaxRecs blocks or the
\* MaxRecs blocks after the first, sound or with a key the store cannot
\* return
ConcDeployments ==
    { d \in Deployments :
        /\ \E o \in {0, 1} : d.kinds = SubSeq(BlockKinds, 1 + o, MaxRecs + o)
        /\ d.mode = "nearest"
        /\ d.fault \in {"none", "nokey"} }

\* the distance parameters of the concurrent requests, all at lat 0, lon 0
ConcDists == { <<TRUE, 1>>, <<TRUE, 2>>, <<TRUE, MaxDistance + 1>> }

InitConc ==
    /\ disk \in ConcDeployments
    /\ state = "Uninitialized"
    /\ poplocs = <<>>
    /\ popbddb = "nil"
    /\ pc = "idle"
    /\ req = NoReq
    /\ cube = NoCube
    /\ idx = 0
    /\ keys = <<>>
    /\ recs = <<>>
    /\ acc = ZeroAcc
    /\ resp = NoResp
    /\ audit = NoAudit
    /\ first = NoFirst
    /\ workers = [p \in Procs |-> IdleWorker]
    /\ written = <<>>
    /\ mat = NoMat
    /\ kfun = [p \in Procs |-> IdleK]
    /\ gomaxprocs = 0

\* a result list kept in a variable of the package, shared by the calls
idsShared(p) == workers[IF p = 1 THEN NProcs ELSE p - 1].keys

\* geosearch: ids := make([]string, 0), a list of the call's own
idsFresh(p) == <<>>

\* handler p gets a request
CRequest(p, d) ==
    /\ state = "Ready"
    /\ workers[p].pc = "idle"
    /\ workers' = [workers EXCEPT ![p] =
          [@ EXCEPT !.pc = "validate",
                    !.req = [variant |-> "store", distance |-> d,
                             lat |-> <<TRUE, 0>>, lon |-> <<TRUE, 0>>,
                             direct |-> FALSE]]]
    /\ UNCHANGED << kvars, mat, written, disk, state, poplocs, popbddb, pc, req, cube, idx, keys,
                    recs, acc, resp, audit, first >>

\* handler p: the parameter checks, then the entry of geosearch
CValidate(p) ==
    /\ workers[p].pc = "validate"
    /\ LET w == workers[p]
       IN  workers' = [workers EXCEPT ![p] =
             IF ~Accepts(w.req)
                 THEN [w EXCEPT !.pc = "done", !.resp = HS400]
                 ELSE [w EXCEPT !.pc = "geosearch",
                                !.cube = Cube(w.req.lat[2], w.req.lon[2],
                                              w.req.distance[2]),
                                !.idx = 1,
                                !.keys = idsFresh(p)]]
    /\ UNCHANGED << kvars, mat, written, disk, state, poplocs, popbddb, pc, req, cube, idx, keys,
                    recs, acc, resp, audit, first >>

\* handler p: one iteration of the loop of geosearch
CGeoSearchStep(p) ==
    /\ workers[p].pc = "geosearch"
    /\ workers[p].idx <= Len(poplocs)
    /\ LET w   == workers[p]
           loc == poplocs[w.idx]
       IN  workers' = [workers EXCEPT ![p] =
             [w EXCEPT !.idx = @ + 1,
                       !.keys = IF Admit(w.cube, w.req.lat[2], w.req.lon[2],
                                         w.req.distance[2], loc)
                                   THEN Append(@, loc.id) ELSE @]]
    /\ UNCHANGED << kvars, mat, written, disk, state, poplocs, popbddb, pc, req, cube, idx, keys,
                    recs, acc, resp, audit, first >>

\* handler p: geosearch returns
CGeoSearchReturn(p) ==
    /\ workers[p].pc = "geosearch"
    /\ workers[p].idx > Len(poplocs)
    /\ workers' = [workers EXCEPT ![p] = [@ EXCEPT !.pc = "popsearch"]]
    /\ UNCHANGED << kvars, mat, written, disk, state, poplocs, popbddb, pc, req, cube, idx, keys,
                    recs, acc, resp, audit, first >>

\* handler p: popsearch in a read-only transaction of the store
CPopSearch(p) ==
    /\ workers[p].pc = "popsearch"
    /\ LET w == workers[p]
           r == popsearch(w.keys)
       IN  workers' = [workers EXCEPT ![p] =
             IF r.err
                 THEN [w EXCEPT !.pc = "done", !.recs = r.vals,
                                !.resp = HS500]
                 ELSE [w EXCEPT !.pc = "summary", !.recs = r.vals]]
    /\ UNCHANGED << kvars, mat, written, disk, state, poplocs, popbddb, pc, req, cube, idx, keys,
                    recs, acc, resp, audit, first >>

\* handler p: popsummary, the result object, HS200j
CSummary(p) ==
    /\ workers[p].pc = "summary"
    /\ \E t \in 0..MaxDuration :
         LET w == workers[p]
             s == popsummary(w.recs)
         IN  workers' = [workers EXCEPT ![p] =
               [w EXCEPT !.pc = "done",
                         !.resp = Result(t, w.req, Len(w.recs), s.pop,
                                         s.fpop, s.mpop, s.fpyr, s.mpyr)]]
    /\ UNCHANGED << kvars, mat, written, disk, state, poplocs, popbddb, pc, req, cube, idx, keys,
                    recs, acc, resp, audit, first >>

\* handler p has returned
CReturn(p) ==
    /\ workers[p].pc = "done"
    /\ workers' = [workers EXCEPT ![p] = IdleWorker]
    /\ UNCHANGED << kvars, mat, written, disk, state, poplocs, popbddb, pc, req, cube, idx, keys,
                    recs, acc, resp, audit, first >>

NextConc ==
    \/ InitService
    \/ \E p \in Procs, d \in ConcDists : CRequest(p, d)
    \/ \E p \in Procs : CValidate(p)
    \/ \E p \in Procs : CGeoSearchStep(p)
    \/ \E p \in Procs : CGeoSearchReturn(p)
    \/ \E p \in Procs : CPopSearch(p)
    \/ \E p \in Procs : CSummary(p)
    \/ \E p \in Procs : CReturn(p)

SpecConc == InitConc /\ [][NextConc]_vars

(***************************************************************************)
(* The three-block scenario: A at the query point with 100 people, B       *)
(* 1000 m away with 50, C 2,000,000 m away with 10.                        *)
(***************************************************************************)
ScenarioKinds == << <<10, 10, "A">>, <<10, 11, "B">>, <<30, 10, "C">> >>

ScenarioDists == { <<TRUE, 500>>, <<TRUE, 1500>>, <<TRUE, 3000000>> }

\* the query point A
ScenarioPlace == << <<TRUE, 10>>, <<TRUE, 10>> >>

InitScenario ==
    /\ disk \in [kinds : {ScenarioKinds}, mode : Roundings, fault : {"none"}]
    /\ state = "Uninitialized"
    /\ poplocs = <<>>
    /\ popbddb = "nil"
    /\ pc = "idle"
    /\ req = NoReq
    /\ cube = NoCube
    /\ idx = 0
    /\ keys = <<>>
    /\ recs = <<>>
    /\ acc = ZeroAcc
    /\ resp = NoResp
    /\ audit = NoAudit
    /\ first = NoFirst
    /\ workers = [p \in Procs |-> IdleWorker]
    /\ written = <<>>
    /\ mat = NoMat
    /\ kfun = [p \in Procs |-> IdleK]
    /\ gomaxprocs = 0

NextScenario ==
    \/ InitService
    \/ \E v \in {"store", "bin"}, d \in ScenarioDists :
           Request(v, d, ScenarioPlace)
    \/ Validate
    \/ GeoSearchStep
    \/ GeoSearchReturn
    \/ PopSearch
    \/ Summary
    \/ Open
    \/ ScanStep
    \/ ScanEnd
    \/ Finish
    \/ \E d \in ScenarioDists : Followup(d)
    \/ Return

SpecScenario == InitScenario /\ [][NextScenario]_vars

(***************************************************************************)
(* The path services: geocircle (two revisions) and greatell.  The points  *)
(* the geodesy library computes are kept as terms: which call produced     *)
(* them, with which arguments.                                             *)
(***************************************************************************)
\* "geodesic": levels 1..4, radius from 1; "ellipse": levels 1..5, radius
\* from 1000, with the length of the path in the response
GCRevisions == {"geodesic", "ellipse"}

GCLevelMax(rev) == IF rev = "geodesic" THEN 4 ELSE 5
GCRadiusMin(rev) == IF rev = "geodesic" THEN 1 ELSE 1000

GCLevels == { <<FALSE, 0>> } \cup { <<TRUE, l>> : l \in 0..6 }

GCRadii ==
    { <<FALSE, 0>>, <<TRUE, 0>>, <<TRUE, 1>>, <<TRUE, 999>>, <<TRUE, 1000>>,
      <<TRUE, MaxDistance>>, <<TRUE, MaxDistance + 1>> }

GCPlaces ==
    { << <<TRUE, 0>>, <<TRUE, 0>> >>,
      << <<TRUE, -MaxLat>>, <<TRUE, MaxLon>> >>,
      << <<TRUE, MaxLat + 1>>, <<TRUE, 0>> >>,
      << <<TRUE, 0>>, <<FALSE, 0>> >> }

GCAccepts(r) ==
    /\ r.level[1] /\ 1 <= r.level[2] /\ r.level[2] <= GCLevelMax(r.rev)
    /\ LatOK(r.lat)
    /\ LonOK(r.lon)
    /\ r.radius[1] /\ GCRadiusMin(r.rev) <= r.radius[2]
    /\ r.radius[2] <= MaxDistance

\* the azimuth of direction k of n, in 1/16 degree: k * step, brought into
\* (-180, 180]
Alpha(k, n) ==
    LET a == k * (5760 \div n)
    IN  IF a > 180 * 16 THEN a - 360 * 16 ELSE a

\* ps = make([]geomys.Point, n+1); ps[k] = Direct(c, alpha, s) for k < n;
\* ps[n] = ps[0]
gengeocircle(rev, c, s, level) ==
    LET lv == IF level < 1 THEN 1
              ELSE IF level > GCLevelMax(rev) THEN GCLevelMax(rev)
              ELSE level
        n  == CASE lv = 1 -> 360
                [] lv = 2 -> 720
                [] lv = 3 -> 1440
                [] lv = 4 -> 2880
                [] lv = 5 -> 5760
        ps == [k \in 1..n |->
                  [direct |-> c, alpha |-> Alpha(k - 1, n), s |-> s]]
    IN  Append(ps, ps[1])

\* a coordinate rounded for the response: 9 decimals in the "geodesic"
\* revision, 8 in the other
GCRound(rev, v) == [of |-> v, decimals |-> IF rev = "geodesic" THEN 9 ELSE 8]

\* the JSON object of geocircle
GCResult(t, r) ==
    LET C    == gengeocircle(r.rev, <<r.lat[2], r.lon[2]>>, r.radius[2],
                             r.level[2])
        path == [k \in 1..Len(C) |-> GCRound(r.rev, C[k])]
    IN  [ status      |-> 200,
          duration_ms |-> t,
          type        |-> IF r.rev = "geodesic" THEN "GeodesicCircle"
                          ELSE "GeoCircle",
          center      |-> [lat |-> GCRound(r.rev, r.lat[2]),
                           lon |-> GCRound(r.rev, r.lon[2])],
          radius      |-> r.radius[2],
          length      |-> IF r.rev = "geodesic" THEN "none"
                          ELSE [segments |-> Len(C) - 1],
          count       |-> Len(path),
          path        |-> path ]

GeoCircleRequest(rev, level, place, radius) ==
    /\ state = "Ready"
    /\ pc = "idle"
    /\ req' = [endpoint |-> "geocircle", rev |-> rev, level |-> level,
               lat |-> place[1], lon |-> place[2], radius |-> radius]
    /\ pc' = "geocircle"
    /\ UNCHANGED << kvars, mat, written, workers, disk, state, poplocs, popbddb, cube, idx, keys,
                    recs, acc, resp, audit, first >>

\* geocircle, from the parameter parsing to HS200j
GeoCircleHandle ==
    /\ pc = "geocircle"
    /\ \E t \in 0..MaxDuration :
         resp' = IF GCAccepts(req) THEN GCResult(t, req) ELSE HS400
    /\ pc' = "done"
    /\ written' = Written(resp')
    /\ UNCHANGED << kvars, mat, workers, disk, state, poplocs, popbddb, req, cube, idx,
                    keys, recs, acc, audit, first >>

\* greatell: positions are in 1/10,000,000 degree
GECounts ==
    { <<FALSE, 0>>, <<TRUE, 2>>, <<TRUE, 3>>, <<TRUE, 4>>, <<TRUE, 1001>>,
      <<TRUE, 1002>> }

GESources ==
    { << <<TRUE, 0>>, <<TRUE, 0>> >>,
      << <<TRUE, 123456785>>, <<TRUE, -1799999995>> >>,
      << <<TRUE, 900000001>>, <<TRUE, 0>> >> }

GETargets ==
    { << <<TRUE, 0>>, <<TRUE, 100000000>> >>,
      << <<TRUE, -899999994>>, <<TRUE, 1800000000>> >>,
      << <<TRUE, 0>>, <<FALSE, 0>> >> }

CountOK(c) == c[1] /\ 3 <= c[2] /\ c[2] <= 1001
Lat7OK(l) == l[1] /\ -MaxLat * 10000000 <= l[2] /\ l[2] <= MaxLat * 10000000
Lon7OK(l) == l[1] /\ -MaxLon * 10000000 <= l[2] /\ l[2] <= MaxLon * 10000000

GEAccepts(r) ==
    /\ CountOK(r.count)
    /\ Lat7OK(r.lat1) /\ Lon7OK(r.lon1)
    /\ Lat7OK(r.lat2) /\ Lon7OK(r.lon2)

\* round6 of a position: y := int64(math.Abs(x)*1000000 + 0.5), sign
\* restored, float64(y) / 1000000
round6(x) ==
    LET y == (Abs(x) + 5) \div 10
    IN  (IF x < 0 THEN -y ELSE y) * 10

\* round6 of a value the library computed
Round6Of(v) == [of |-> v, decimals |-> 6]

\* a loop that runs one step too far
GEMidLong(count) ==
    [k \in 1..(count - 1) |->
        [lat |-> Round6Of(<<"Direct", k, "lat">>),
         lon |-> Round6Of(<<"Direct", k, "lon">>),
         azi |-> Round6Of(<<"Direct", k, "azi">>)]]

\* the points appended by the loop: k = 1 .. count-2
GEMid(count) ==
    [k \in 1..(count - 2) |->
        [lat |-> Round6Of(<<"Direct", k, "lat">>),
         lon |-> Round6Of(<<"Direct", k, "lon">>),
         azi |-> Round6Of(<<"Direct", k, "azi">>)]]

\* the JSON object of greatell
GEResult(t, r) ==
    LET head   == [lat |-> round6(r.lat1[2]), lon |-> round6(r.lon1[2]),
                   azi |-> Round6Of("azi1")]
        last   == [lat |-> round6(r.lat2[2]), lon |-> round6(r.lon2[2]),
                   azi |-> Round6Of("azi2")]
        result == (<<head>> \o GEMid(r.count[2])) \o <<last>>
    IN  [ status      |-> 200,
          duration_ms |-> t,
          type        |-> "GreatEllipse",
          source      |-> [lat |-> result[1].lat, lon |-> result[1].lon],
          target      |-> [lat |-> result[Len(result)].lat,
                           lon |-> result[Len(result)].lon],
          count       |-> Len(result),
          distance    |-> [of |-> "s12", decimals |-> 3],
          step        |-> [of |-> <<"s12", r.count[2] - 1>>, decimals |-> 3],
          path        |-> result ]

GreatEllRequest(count, src, tgt) ==
    /\ state = "Ready"
    /\ pc = "idle"
    /\ req' = [endpoint |-> "greatell", count |-> count,
               lat1 |-> src[1], lon1 |-> src[2],
               lat2 |-> tgt[1], lon2 |-> tgt[2]]
    /\ pc' = "greatell"
    /\ UNCHANGED << kvars, mat, written, workers, disk, state, poplocs, popbddb, cube, idx, keys,
                    recs, acc, resp, audit, first >>

\* greatell, from the parameter parsing to HS200j
GreatEllHandle ==
    /\ pc = "greatell"
    /\ \E t \in 0..MaxDuration :
         resp' = IF GEAccepts(req) THEN GEResult(t, req) ELSE HS400
    /\ pc' = "done"
    /\ written' = Written(resp')
    /\ UNCHANGED << kvars, mat, workers, disk, state, poplocs, popbddb, req, cube, idx,
                    keys, recs, acc, audit, first >>

\* the service is up with an empty dataset; no request yet
InitPaths ==
    /\ disk = [kinds |-> <<>>, mode |-> "nearest", fault |-> "none"]
    /\ state = "Ready"
    /\ poplocs = <<>>
    /\ popbddb = "open"
    /\ pc = "idle"
    /\ req = NoReq
    /\ cube = NoCube
    /\ idx = 0
    /\ keys = <<>>
    /\ recs = <<>>
    /\ acc = ZeroAcc
    /\ resp = NoResp
    /\ audit = NoAudit
    /\ first = NoFirst
    /\ workers = [p \in Procs |-> IdleWorker]
    /\ written = <<>>
    /\ mat = NoMat
    /\ kfun = [p \in Procs |-> IdleK]
    /\ gomaxprocs = 0

NextPaths ==
    \/ \E rev \in GCRevisions, level \in GCLevels, place \in GCPlaces,
          radius \in GCRadii : GeoCircleRequest(rev, level, place, radius)
    \/ GeoCircleHandle
    \/ \E count \in GECounts, src \in GESources, tgt \in GETargets :
          GreatEllRequest(count, src, tgt)
    \/ GreatEllHandle
    \/ Return

SpecPaths == InitPaths /\ [][NextPaths]_vars

(***************************************************************************)
(* The geomatrix service: /api/geomatrix/compute and /compute/sort take a  *)
(* POSTed list of locations and answer the distance of every pair.         *)
(* A distance is in whole metres here; Km and Mi are in tenths, as the     *)
(* code rounds them to one decimal.                                        *)
(***************************************************************************)
\* the largest list a request may carry
MaxLocs == 3

\* the limit of matparse on the number of ids
NMAX == 100

\* the places a posted list draws from: three valid ones and one whose
\* latitude is outside [-90,90]
MatValidPlaces == { <<0, 0>>, <<0, 1>>, <<1, 1>> }
MatPlaces == MatValidPlaces \cup { <<91, 0>> }

\* geomys.Andoyer on the valid places, in metres; two of the three
\* distances round to the same Km
MatDist(a, b) ==
    IF a = b THEN 0
    ELSE CASE {a, b} = { <<0, 0>>, <<0, 1>> } -> 149
           [] {a, b} = { <<0, 0>>, <<1, 1>> } -> 100040
           [] {a, b} = { <<0, 1>>, <<1, 1>> } -> 100049

\* the "crd" array of a list of places: lat, lon, lat, lon, ...
RECURSIVE Flatten(_)
Flatten(ps) ==
    IF ps = <<>> THEN <<>>
    ELSE << ps[1][1], ps[1][2] >> \o Flatten(Tail(ps))

MatLists == UNION { [1..n -> MatPlaces] : n \in 0..MaxLocs }

\* the POSTed bodies: a list with distinct ids, the same list with its
\* second id repeating the first, the same list with the last coordinate
\* missing, a list of NMAX+1 ids, and a body that is not the JSON object
MatBodies ==
    { [kind |-> "json", ids |-> [i \in 1..Len(ps) |-> i], crd |-> Flatten(ps)] :
        ps \in MatLists }
    \cup { [kind |-> "json",
            ids |-> [i \in 1..Len(ps) |-> IF i = 2 THEN 1 ELSE i],
            crd |-> Flatten(ps)] : ps \in { q \in MatLists : Len(q) >= 2 } }
    \cup { [kind |-> "json", ids |-> [i \in 1..Len(ps) |-> i],
            crd |-> SubSeq(Flatten(ps), 1, 2 * Len(ps) - 1)] :
              ps \in { q \in MatLists : Len(q) >= 1 } }
    \cup { [kind |-> "json", ids |-> [i \in 1..(NMAX + 1) |-> i],
            crd |-> [i \in 1..(2 * (NMAX + 1)) |-> 0]] }
    \cup { [kind |-> "badjson"] }

\* HS400t: status 400 with a text
HS400t(msg) == [status |-> 400, text |-> msg]

\* matparse: the decoded body and ok, or the error it answers
matparse(body) ==
    IF body.kind = "badjson"
    THEN [ok |-> FALSE, err |-> "json error"]
    ELSE LET n == Len(body.ids) IN
         IF n > NMAX \/ 2 * n # Len(body.crd)
         THEN [ok |-> FALSE, err |-> "array length error"]
         ELSE IF Cardinality({ body.ids[i] : i \in 1..n }) # n
         THEN [ok |-> FALSE, err |-> "repeated ids error"]
         ELSE [ok |-> TRUE, err |-> ""]

\* matcomp, matcomps: the loc array built from the decoded body
LocOf(body) ==
    [i \in 1..Len(body.ids) |->
        [id |-> body.ids[i], lat |-> body.crd[2 * i - 1],
         lon |-> body.crd[2 * i]]]

\* matcomp, matcomps: "if !ok { return }"
Proceeds(ok) == ok

\* computegeomat: the coordinate check of every point
MatCoordsOK(loc) ==
    \A i \in 1..Len(loc) :
        /\ -MaxLat <= loc[i].lat /\ loc[i].lat <= MaxLat
        /\ -MaxLon <= loc[i].lon /\ loc[i].lon <= MaxLon

\* math.Round(meters/100)/10, in tenths of a kilometre
KmOf(m) == (m + 50) \div 100

\* math.Round(meters/mifactor*10)/10 with mifactor = 1200/3937*5280, in
\* tenths of a mile
MiOf(m) == (2 * 3937 * m + 633600) \div (2 * 633600)

\* matloc: the loops "for i ... for j := i + 1 ..." in their order
RECURSIVE PairsFrom(_, _, _)
PairsFrom(i, j, n) ==
    IF i > n THEN <<>>
    ELSE IF j > n THEN PairsFrom(i + 1, i + 2, n)
    ELSE << <<i, j>> >> \o PairsFrom(i, j + 1, n)

\* matloc: one tdist entry; D is the map computegeomat returned, and a
\* missing key of a Go map reads as zero
MatEntry(loc, i, j, filled) ==
    LET m == IF filled
             THEN MatDist(<<loc[i].lat, loc[i].lon>>, <<loc[j].lat, loc[j].lon>>)
             ELSE 0
    IN  [id1 |-> loc[i].id, id2 |-> loc[j].id, km |-> KmOf(m), mi |-> MiOf(m)]

MatEntries(loc, filled) ==
    LET ps == PairsFrom(1, 2, Len(loc))
    IN  [k \in 1..Len(ps) |-> MatEntry(loc, ps[k][1], ps[k][2], filled)]

\* the orderings of a finite set
RECURSIVE Orderings(_)
Orderings(S) ==
    IF S = {} THEN { <<>> }
    ELSE UNION { { <<x>> \o o : o \in Orderings(S \ {x}) } : x \in S }

\* a sort that leaves the slice as it is
SortKeep(L) == { L }

\* sort.Sort(distslice(result)) with Less = s[i].Km < s[j].Km: the sort
\* is not stable, so every arrangement in nondecreasing Km is an outcome
SortOutcomes(L) ==
    { [i \in 1..Len(L) |-> L[o[i]]] : o \in
        { q \in Orderings(1..Len(L)) :
            \A i \in 1..(Len(L) - 1) : L[q[i]].km <= L[q[i + 1]].km } }

\* HS200j(w, jrep(count, result))
MatResult(result) ==
    [status |-> 200, count |-> Len(result), distances |-> result]

\* matloc: the responses it writes, in order, one sequence per outcome
\* of the sort
matlocNoReturn(loc, dosort) ==
    LET ok == MatCoordsOK(loc)
        pre == IF ok THEN <<>> ELSE << HS400t("coordinate error") >>
        result == MatEntries(loc, ok)
    IN  { pre \o << MatResult(r) >> :
            r \in IF dosort THEN SortOutcomes(result) ELSE { result } }

matloc(loc, dosort) ==
    IF ~MatCoordsOK(loc)
    THEN { << HS400t("coordinate error") >> }
    ELSE LET result == MatEntries(loc, TRUE)
         IN  { << MatResult(r) >> :
                 r \in IF dosort THEN SortOutcomes(result)
                       ELSE { result } }

\* a POST arrives at /api/geomatrix/compute or /compute/sort
MatRequest(dosort, body) ==
    /\ state = "Ready"
    /\ pc = "idle"
    /\ req' = [endpoint |-> "geomatrix", dosort |-> dosort, body |-> body]
    /\ pc' = "matparse"
    /\ UNCHANGED << kvars, mat, written, workers, disk, state, poplocs, popbddb,
                    cube, idx, keys, recs, acc, resp, audit, first >>

\* matparse runs and returns to matcomp; on an error it has written 400
MatParse ==
    /\ pc = "matparse"
    /\ LET r == matparse(req.body) IN
         /\ mat' = [ok |-> r.ok, loc |-> <<>>]
         /\ resp' = IF r.ok THEN resp ELSE HS400t(r.err)
    /\ written' = Written(resp')
    /\ pc' = "matcomp"
    /\ UNCHANGED << kvars, workers, disk, state, poplocs, popbddb, req, cube, idx,
                    keys, recs, acc, audit, first >>

\* matcomp, matcomps after matparse: return, or build loc for matloc
MatComp ==
    /\ pc = "matcomp"
    /\ IF Proceeds(mat.ok)
       THEN /\ mat' = [mat EXCEPT !.loc = LocOf(req.body)]
            /\ pc' = "matloc"
       ELSE /\ mat' = mat
            /\ pc' = "done"
    /\ UNCHANGED << kvars, written, workers, disk, state, poplocs, popbddb, req,
                    cube, idx, keys, recs, acc, resp, audit, first >>

\* matloc, from computegeomat to the response
MatLoc ==
    /\ pc = "matloc"
    /\ \E out \in matloc(mat.loc, req.dosort) :
         /\ resp' = out[Len(out)]
         /\ written' = written \o [k \in 1..Len(out) |-> out[k].status]
    /\ pc' = "done"
    /\ UNCHANGED << kvars, mat, workers, disk, state, poplocs, popbddb, req, cube,
                    idx, keys, recs, acc, audit, first >>

\* the service is up; no request yet
InitMatrix ==
    /\ disk = [kinds |-> <<>>, mode |-> "nearest", fault |-> "none"]
    /\ state = "Ready"
    /\ poplocs = <<>>
    /\ popbddb = "open"
    /\ pc = "idle"
    /\ req = NoReq
    /\ cube = NoCube
    /\ idx = 0
    /\ keys = <<>>
    /\ recs = <<>>
    /\ acc = ZeroAcc
    /\ resp = NoResp
    /\ audit = NoAudit
    /\ first = NoFirst
    /\ workers = [p \in Procs |-> IdleWorker]
    /\ written = <<>>
    /\ mat = NoMat
    /\ kfun = [p \in Procs |-> IdleK]
    /\ gomaxprocs = 0

NextMatrix ==
    \/ \E dosort \in BOOLEAN, body \in MatBodies : MatRequest(dosort, body)
    \/ MatParse
    \/ MatComp
    \/ MatLoc
    \/ Return

SpecMatrix == InitMatrix /\ [][NextMatrix]_vars

(***************************************************************************)
(* One server with the pop2010 and the geomatrix handlers, on one dataset  *)
(* per fault, for what a handler writes to its ResponseWriter.             *)
(***************************************************************************)
NextStatus ==
    \/ InitService
    \/ \E v \in {"store", "bin"}, d \in DistInputs, place \in PlaceInputs :
           Request(v, d, place)
    \/ Validate
    \/ GeoSearchStep
    \/ GeoSearchReturn
    \/ PopSearch
    \/ Summary
    \/ Open
    \/ ScanStep
    \/ ScanEnd
    \/ Finish
    \/ Return
    \/ \E dosort \in BOOLEAN, body \in MatBodies : MatRequest(dosort, body)
    \/ MatParse
    \/ MatComp
    \/ MatLoc

SpecStatus == InitLive /\ [][NextStatus]_vars

(***************************************************************************)
(* The kfunction service: /kfunction/{count}/ncpu/{ncpu}.  Every request   *)
(* runs in its own handler goroutine; compute() sets runtime.GOMAXPROCS,   *)
(* starts D goroutines that each assign one element of the handler's array *)
(* h, and waits for them on a sync.WaitGroup.  The code has D = 181; the   *)
(* model runs the same loop with a small D.  A path parameter is a pair:   *)
(* whether strconv.ParseInt accepts it, and the value.                     *)
(***************************************************************************)
D == 2

KCountMin == 2
KCountMax == 1000
KNcpuMin == 1
KNcpuMax == 16

\* the requests: <<count, ncpu>>
KRequests ==
    { << <<TRUE, KCountMin>>, <<TRUE, KNcpuMin>> >>,
      << <<TRUE, KCountMin>>, <<TRUE, KNcpuMin + 1>> >>,
      << <<TRUE, KCountMin - 1>>, <<TRUE, KNcpuMin>> >>,
      << <<FALSE, 0>>, <<TRUE, KNcpuMin>> >>,
      << <<TRUE, KCountMax>>, <<TRUE, KNcpuMax + 1>> >> }

KAccepts(k) ==
    /\ k.count[1] /\ KCountMin <= k.count[2] /\ k.count[2] <= KCountMax
    /\ k.ncpu[1] /\ KNcpuMin <= k.ncpu[2] /\ k.ncpu[2] <= KNcpuMax

\* the goroutines of one compute(), k = 0..D-1
Slots == 0..(D - 1)

\* var h [D]float64: per element, the goroutines that have assigned it
ZeroH == [k \in Slots |-> <<>>]

\* the element goroutine k assigns: h[k]
SlotZero(k) == 0

Slot(k) == k

\* wg.Wait() returns when the counter is zero
WaitNow(wg) == TRUE

WaitOver(wg) == wg = 0

\* the array as the response carries it: the value K(j) last assigned to
\* an element, -1 for an element still holding its zero value
KCopy(h) == [k \in Slots |-> IF h[k] = <<>> THEN -1 ELSE h[k][Len(h[k])]]

KResult(t, k) ==
    [status |-> 200, duration_msec |-> t, count |-> k.count[2],
     kfunction |-> KCopy(k.h)]

\* a request arrives; the handler has not looked at it yet
KRequest(p, r) ==
    /\ state = "Ready"
    /\ kfun[p].pc = "idle"
    /\ kfun' = [kfun EXCEPT ![p] =
                  [IdleK EXCEPT !.pc = "parse", !.count = r[1], !.ncpu = r[2]]]
    /\ UNCHANGED << gomaxprocs, mat, written, workers, disk, state, poplocs,
                    popbddb, pc, req, cube, idx, keys, recs, acc, resp,
                    audit, first >>

\* the parameter checks: 400, or on to compute() with h zeroed
KParse(p) ==
    /\ kfun[p].pc = "parse"
    /\ kfun' = [kfun EXCEPT ![p] =
                  IF KAccepts(kfun[p])
                  THEN [@ EXCEPT !.pc = "compute", !.h = ZeroH]
                  ELSE [@ EXCEPT !.pc = "done", !.resp = HS400]]
    /\ UNCHANGED << gomaxprocs, mat, written, workers, disk, state, poplocs,
                    popbddb, pc, req, cube, idx, keys, recs, acc, resp,
                    audit, first >>

\* compute(): runtime.GOMAXPROCS(ncpu), the points, wg.Add(D) and the D
\* go statements
KStart(p) ==
    /\ kfun[p].pc = "compute"
    /\ gomaxprocs' = kfun[p].ncpu[2]
    /\ kfun' = [kfun EXCEPT ![p] =
                  [@ EXCEPT !.pc = "wait", !.wg = D, !.go = Slots]]
    /\ UNCHANGED << mat, written, workers, disk, state, poplocs, popbddb,
                    pc, req, cube, idx, keys, recs, acc, resp, audit,
                    first >>

\* goroutine k of handler p: h[k] = Kripley - Kpois, wg.Done()
KWorker(p, k) ==
    /\ k \in kfun[p].go
    /\ kfun' = [kfun EXCEPT ![p] =
                  [@ EXCEPT !.h[Slot(k)] = Append(@, k),
                            !.wg = @ - 1,
                            !.go = @ \ {k}]]
    /\ UNCHANGED << gomaxprocs, mat, written, workers, disk, state, poplocs,
                    popbddb, pc, req, cube, idx, keys, recs, acc, resp,
                    audit, first >>

\* wg.Wait() returns; the handler copies h into the response
KWait(p) ==
    /\ kfun[p].pc = "wait"
    /\ WaitOver(kfun[p].wg)
    /\ \E t \in 0..MaxDuration :
         kfun' = [kfun EXCEPT ![p] =
                    [@ EXCEPT !.pc = "done", !.resp = KResult(t, kfun[p])]]
    /\ UNCHANGED << gomaxprocs, mat, written, workers, disk, state, poplocs,
                    popbddb, pc, req, cube, idx, keys, recs, acc, resp,
                    audit, first >>

\* the handler has returned and its goroutines are gone
KReturn(p) ==
    /\ kfun[p].pc = "done"
    /\ kfun[p].go = {}
    /\ kfun' = [kfun EXCEPT ![p] = IdleK]
    /\ UNCHANGED << gomaxprocs, mat, written, workers, disk, state, poplocs,
                    popbddb, pc, req, cube, idx, keys, recs, acc, resp,
                    audit, first >>

\* the service is up; no request yet
InitK ==
    /\ disk = [kinds |-> <<>>, mode |-> "nearest", fault |-> "none"]
    /\ state = "Ready"
    /\ poplocs = <<>>
    /\ popbddb = "open"
    /\ pc = "idle"
    /\ req = NoReq
    /\ cube = NoCube
    /\ idx = 0
    /\ keys = <<>>
    /\ recs = <<>>
    /\ acc = ZeroAcc
    /\ resp = NoResp
    /\ audit = NoAudit
    /\ first = NoFirst
    /\ workers = [p \in Procs |-> IdleWorker]
    /\ written = <<>>
    /\ mat = NoMat
    /\ kfun = [p \in Procs |-> IdleK]
    /\ gomaxprocs = 0

NextK ==
    \/ \E p \in Procs, r \in KRequests : KRequest(p, r)
    \/ \E p \in Procs : KParse(p)
    \/ \E p \in Procs : KStart(p)
    \/ \E p \in Procs, k \in Slots : KWorker(p, k)
    \/ \E p \in Procs : KWait(p)
    \/ \E p \in Procs : KReturn(p)

SpecK == InitK /\ [][NextK]_vars

(***************************************************************************)
(* Properties.                                                             *)
(***************************************************************************)
Range(f) == { f[i] : i \in DOMAIN f }

\* a request is being served (req is set)
Serving == pc # "idle"

\* the query of the request in the domain of the interface, stated on the
\* numbers themselves
InDomain ==
    /\ req.distance[1] /\ req.distance[2] >= 1 /\ req.distance[2] <= 1000000
    /\ req.lat[1] /\ req.lat[2] >= -90 /\ req.lat[2] <= 90
    /\ req.lon[1] /\ req.lon[2] >= -180 /\ req.lon[2] <= 180

\* block i of the dataset is within the exact distance of the query point
Within(i) ==
    Andoyer(req.lat[2], req.lon[2], disk.kinds[i][1], disk.kinds[i][2])
        <= req.distance[2] * Unit

\* the ids of the dataset within the exact distance of the query point
TrueMatches == { i \in 1..Len(disk.kinds) : Within(i) }

\* the search of the request has examined the whole dataset
SearchOver ==
    \/ req.variant = "store" /\ pc \in {"popsearch", "summary", "returned"}
    \/ req.variant = "bin" /\ pc = "finish"

\* the ids the search retained
Retained == IF req.variant = "store" THEN Range(keys) ELSE Range(audit.matched)

\* C1: no false negatives: once the search of an in-domain query is over,
\* every record whose exact distance to the query point is <= radius has
\* been retained.
C1_NoFalseNegatives ==
    (Serving /\ InDomain /\ SearchOver) => TrueMatches \subseteq Retained

\* C2: no false positives: every id collected by geosearch and every record
\* aggregated by the binary scan is within the exact distance of the query
\* point, and the binary scan counts exactly the records it aggregated.
C2_NoFalsePositives ==
    Serving =>
        /\ \A k \in 1..Len(keys) : Within(keys[k])
        /\ (req.variant = "bin" /\ pc \in {"scan", "finish"}) =>
              /\ \A k \in 1..Len(audit.matched) : Within(audit.matched[k])
              /\ acc.filter2 = Len(audit.matched)

\* C2 witness: geosearch returned a non-empty result after the exact distance
\* test turned down a record that was inside the cube.
C2_Witness ==
    /\ pc = "popsearch"
    /\ Len(keys) > 0
    /\ Len(audit.exact) > Len(keys)

\* C3: the cube is rounded outward: on every axis the lower bound is
\* <= q - r and the upper bound is >= q + r.
C3_CubeRoundedOutward ==
    (Serving /\ InDomain /\ pc \in {"geosearch", "scan"}) =>
        LET xyz == Forward(req.lat[2], req.lon[2])
            d   == req.distance[2] * Unit
        IN  \A k \in 1..3 :
              /\ cube[2 * k - 1] * Unit <= xyz[k] - d
              /\ cube[2 * k] * Unit >= xyz[k] + d

\* C4: a pop2010 request outside the domain touches nothing (no file
\* opened, no record read, no store lookup) and ends with 400; a request in
\* the domain never ends with 400.
C4_ValidationBeforeScan ==
    (Serving /\ ~req.direct) =>
        /\ ~InDomain => (audit = NoAudit /\ pc \in {"validate", "done"})
        /\ pc = "done" => (resp.status = 400 <=> ~InDomain)

\* C4 witness: a request with a parsable distance above the limit, at a valid
\* place, was answered 400.
C4_Witness ==
    /\ pc = "done"
    /\ resp = HS400
    /\ req.distance = <<TRUE, MaxDistance + 1>>
    /\ req.lat = <<TRUE, 0>>
    /\ req.lon = <<TRUE, 0>>

\* C5: geosearch called directly never returns a result set for a distance
\* outside [1, 1000000].
C5_GeosearchRejectsOutOfDomain ==
    pc = "returned" =>
        (req.distance[2] >= 1 /\ req.distance[2] <= 1000000)

\* the sum of field j of the census data over the blocks of S
RECURSIVE SumField(_, _)
SumField(S, j) ==
    IF S = {} THEN 0
    ELSE LET i == CHOOSE i \in S : TRUE
         IN  ProfileValue(disk.kinds[i][3], j) + SumField(S \ {i}, j)

\* C6: the store-backed query reports, for the ids geosearch returned, their
\* number and the sum of every field over exactly these blocks.
C6_AggregateSums ==
    (pc = "done" /\ req.variant = "store" /\ resp.status = 200) =>
        LET M == Range(keys)
        IN  /\ resp.blocks = Len(keys)
            /\ resp.blocks = Cardinality(M)
            /\ resp.pop2010 = SumField(M, 0)
            /\ resp.pop2010_male = SumField(M, 1)
            /\ resp.pop2010_female = SumField(M, 25)
            /\ \A b \in 1..23 :
                 /\ resp.ages_male[b] = SumField(M, 1 + b)
                 /\ resp.ages_female[b] = SumField(M, 25 + b)

\* C6 witness: a successful store-backed query that matched two blocks with
\* different profiles.
C6_Witness ==
    /\ pc = "done"
    /\ req.variant = "store"
    /\ resp.status = 200
    /\ resp.blocks = 2
    /\ resp.pop2010 = 40003

\* the rearrangements of a list of n elements
Perms(n) ==
    { p \in [1..n -> 1..n] : \A i \in 1..n, j \in 1..n : p[i] = p[j] => i = j }

Permuted(seq, p) == [i \in 1..Len(seq) |-> seq[p[i]]]

\* shard totals added field by field
MergeSum(a, b) ==
    [ pop  |-> a.pop + b.pop,
      mpop |-> a.mpop + b.mpop,
      fpop |-> a.fpop + b.fpop,
      mpyr |-> [k \in 1..PyrLen |-> a.mpyr[k] + b.mpyr[k]],
      fpyr |-> [k \in 1..PyrLen |-> a.fpyr[k] + b.fpyr[k]] ]

\* the same for the accumulators of the binary scan, in their own widths
MergeAcc(a, b) ==
    [ filter2     |-> a.filter2 + b.filter2,
      population  |-> Add32(a.population, b.population),
      mpopulation |-> Add32(a.mpopulation, b.mpopulation),
      fpopulation |-> Add32(a.fpopulation, b.fpopulation),
      mpyr |-> [k \in 1..PyrLen |-> Add16(a.mpyr[k], b.mpyr[k])],
      fpyr |-> [k \in 1..PyrLen |-> Add16(a.fpyr[k], b.fpyr[k])] ]

\* the binary accumulation run over a list of record numbers
RECURSIVE ScanFold(_, _)
ScanFold(ids, a) ==
    IF ids = <<>> THEN a
    ELSE ScanFold(Tail(ids), AccRec(a, BinRecord(Head(ids))))

\* C7: the aggregation is order-independent and shard-mergeable: popsummary
\* over any rearrangement of the fetched records, cut into two shards at any
\* place and merged field by field, equals popsummary over the list; the
\* accumulation of the binary scan has the same property.
C7_OrderIndependentMergeable ==
    /\ pc = "summary" =>
         \A p \in Perms(Len(recs)) :
            LET rs == Permuted(recs, p)
            IN  /\ popsummary(rs) = popsummary(recs)
                /\ \A cut \in 0..Len(rs) :
                     MergeSum(popsummary(SubSeq(rs, 1, cut)),
                              popsummary(SubSeq(rs, cut + 1, Len(rs))))
                         = popsummary(recs)
    /\ pc = "finish" =>
         \A p \in Perms(Len(audit.matched)) :
            LET ms == Permuted(audit.matched, p)
            IN  /\ ScanFold(ms, ZeroAcc) = acc
                /\ \A cut \in 0..Len(ms) :
                     MergeAcc(ScanFold(SubSeq(ms, 1, cut), ZeroAcc),
                              ScanFold(SubSeq(ms, cut + 1, Len(ms)), ZeroAcc))
                         = acc

\* C7 witness: popsummary is about to run on two records that differ.
C7_Witness ==
    /\ pc = "summary"
    /\ Len(recs) >= 2
    /\ recs[1] # recs[2]

\* C8: monotonicity: a follow-up query at the same place with a radius at
\* least as large retains every block the first one retained, and none of
\* its count and totals is smaller.
C8_MonotoneInRadius ==
    (pc = "done" /\ first.set /\ resp.status = 200
        /\ first.resp.status = 200) =>
        /\ Range(first.matched) \subseteq Range(audit.matched)
        /\ first.resp.blocks <= resp.blocks
        /\ first.resp.pop2010 <= resp.pop2010
        /\ first.resp.pop2010_male <= resp.pop2010_male
        /\ first.resp.pop2010_female <= resp.pop2010_female
        /\ \A b \in 1..(PyrLen - 1) :
             /\ first.resp.ages_male[b] <= resp.ages_male[b]
             /\ first.resp.ages_female[b] <= resp.ages_female[b]

\* a response without its elapsed time
Body(r) == [f \in (DOMAIN r) \ {"duration_msec"} |-> r[f]]

\* C9 as stated: the second of two identical queries returns a response
\* identical to the first.
C9_Idempotent ==
    (pc = "done" /\ first.set /\ first.req = req) => resp = first.resp

\* C9 as amended: the second of two identical queries returns the same
\* status and the same response in every field but duration_msec.
C9_IdempotentButDuration ==
    (pc = "done" /\ first.set /\ first.req = req) =>
        Body(resp) = Body(first.resp)

\* C9 witness: two identical queries both succeeded with a non-empty match
\* and report different elapsed times.
C9_Witness ==
    /\ pc = "done"
    /\ first.set
    /\ first.req = req
    /\ resp.status = 200
    /\ resp.blocks >= 1
    /\ req.variant = "bin"
    /\ resp.duration_msec # first.resp.duration_msec

\* C10: when the lookup of a matched id fails, popsearch returns no values
\* and the query ends with 500; it never goes on to summarise the rest.
C10_FailedLookupNeverSkipped ==
    (Serving /\ req.variant = "store" /\ pc \in {"summary", "done"}
        /\ InDomain /\ \E k \in 1..Len(keys) : ~StoreGet(keys[k]).ok) =>
        (pc = "done" /\ resp = HS500 /\ recs = <<>>)

\* C10 witness: a query that matched two blocks, one of which the store
\* could not return, ended with 500.
C10_Witness ==
    /\ pc = "done"
    /\ req.variant = "store"
    /\ resp = HS500
    /\ Len(keys) = 2
    /\ recs = <<>>

\* C11: a trailing partial record is an error, not a truncation: the binary
\* scan ends normally only when the end of the file falls on a record
\* boundary, after every whole record was read; a query that opened a file
\* whose length is no multiple of the record size ends with 500 and no
\* aggregate.
C11_PartialRecordIsError ==
    (Serving /\ req.variant = "bin") =>
        /\ pc = "finish" =>
              /\ FileSize % RecordSize = 0
              /\ audit.reads = FileSize \div RecordSize
        /\ (pc = "done" /\ resp.status = 200) => FileSize % RecordSize = 0
        /\ (pc = "done" /\ audit.opens > 0 /\ FileSize % RecordSize # 0) =>
              resp = HS500

\* C11 witness: the scan of a file that ends inside a record had aggregated
\* a matching record when it met the short read; the query ended with 500.
C11_Witness ==
    /\ pc = "done"
    /\ req.variant = "bin"
    /\ FileSize % RecordSize # 0
    /\ audit.reads >= 1
    /\ acc.filter2 >= 1
    /\ resp = HS500

\* a file or the store of the deployment is missing
SourceMissing == disk.fault \in {"nofile", "nodb", "nobin"}

\* C12: a missing data source is a startup failure and never a per-query
\* error: no pop2010 query ends with 500 because the source is missing.
C12_NoPerQueryUnavailable ==
    pc = "done" => ~(SourceMissing /\ resp = HS500)

\* what can go wrong while the location file is loaded and the store opened
LoadFaults == {"nofile", "badrow", "nodb"}

\* the dataset is Ready only with the whole location file parsed and the
\* store open; nothing is served in any other state
LifecycleInv ==
    /\ state \in {"Uninitialized", "Ready", "Failed"}
    /\ state = "Ready" =>
          /\ disk.fault \notin LoadFaults
          /\ poplocs = GeoFile
          /\ popbddb = "open"
    /\ state = "Failed" => disk.fault \in LoadFaults
    /\ state # "Ready" =>
          /\ pc = "idle"
          /\ req = NoReq
          /\ resp = NoResp
          /\ audit = NoAudit

\* the steps of the lifecycle: out of Uninitialized to Ready or Failed as the
\* load went, Failed is terminal, Ready is kept with the same content
LifecycleStep ==
    /\ state = "Uninitialized" =>
          state' = IF disk.fault \in LoadFaults THEN "Failed" ELSE "Ready"
    /\ state = "Failed" => UNCHANGED vars
    /\ state = "Ready" => UNCHANGED << state, poplocs, popbddb, disk >>

\* C13: dataset lifecycle: Uninitialized becomes Ready only when the
\* location file is fully parsed and the store is opened; any load, parse or
\* open error leads to the terminal Failed state; no query is served in
\* Uninitialized or Failed; once Ready the state and the content of the
\* dataset never change.
C13_Lifecycle == [] LifecycleInv /\ [][LifecycleStep]_vars

\* C13 witness: a Ready dataset of two blocks has answered a query.
C13_Witness ==
    /\ state = "Ready"
    /\ Len(poplocs) >= 2
    /\ pc = "done"
    /\ resp.status = 200
    /\ req.variant = "store"

\* geosearch run to the end, from record i on
RECURSIVE geosearchFrom(_, _, _, _, _, _)
geosearchFrom(locs, i, c, lat, lon, dist) ==
    IF i > Len(locs) THEN <<>>
    ELSE LET rest == geosearchFrom(locs, i + 1, c, lat, lon, dist)
         IN  IF Admit(c, lat, lon, dist, locs[i])
                 THEN <<locs[i].id>> \o rest ELSE rest

geosearch(locs, lat, lon, dist) ==
    geosearchFrom(locs, 1, Cube(lat, lon, dist), lat, lon, dist)

\* what the request r gets when its handler runs with no other handler
\* around: the ids matched, the records fetched, the response without its
\* elapsed time
Alone(r) ==
    IF ~Accepts(r) THEN [keys |-> <<>>, recs |-> <<>>, body |-> HS400]
    ELSE LET ks == geosearch(poplocs, r.lat[2], r.lon[2], r.distance[2])
             ps == popsearch(ks)
             s  == popsummary(ps.vals)
         IN  IF ps.err THEN [keys |-> ks, recs |-> <<>>, body |-> HS500]
             ELSE [keys |-> ks, recs |-> ps.vals,
                   body |-> Body(Result(0, r, Len(ps.vals), s.pop, s.fpop,
                                        s.mpop, s.fpyr, s.mpyr))]

\* C14: concurrent queries do not interfere: under every interleaving each
\* handler matches the ids, fetches the records and returns the response
\* (but for the elapsed time) that its request gets when run alone.
C14_NoInterference ==
    \A p \in Procs :
        LET w == workers[p]
        IN  /\ w.pc \in {"popsearch", "summary", "done"} =>
                  w.keys = Alone(w.req).keys
            /\ w.pc \in {"summary", "done"} => w.recs = Alone(w.req).recs
            /\ w.pc = "done" => Body(w.resp) = Alone(w.req).body

\* C14 witness: two handlers are in flight at once on different requests:
\* one is inside the loop of geosearch with a match collected, the other
\* has fetched two records and is about to summarise them.
C14_Witness ==
    /\ workers[1].pc = "geosearch"
    /\ workers[1].keys # <<>>
    /\ workers[1].idx <= Len(poplocs)
    /\ workers[2].pc = "summary"
    /\ Len(workers[2].recs) = 2
    /\ workers[1].req # workers[2].req

\* a step of a query: of the handler, or of geosearch called directly
QueryStep == pc # "idle" \/ pc' # "idle"

\* the dataset in memory, the store handle and the files behind them
Persistent == << poplocs, popbddb, disk, state >>

\* C15: a query is read-only: no step of geosearch, popsearch, popsummary or
\* the handler changes a record of the in-memory dataset or the store,
\* whether the query ends with 200, 400 or 500; a served dataset is the
\* content of the location file.
C15_QueryReadOnly ==
    /\ [][QueryStep => UNCHANGED Persistent]_vars
    /\ [](Serving => poplocs = GeoFile)

\* C15 witness: a query over two records has failed in the store after
\* geosearch went through the dataset.
C15_Witness ==
    /\ pc = "done"
    /\ req.variant = "store"
    /\ resp = HS500
    /\ audit.reads = Len(poplocs)
    /\ Len(poplocs) >= 2
    /\ audit.lookups >= 1

\* C16: the three-block scenario: the query at A with radius 1500 returns
\* 2 blocks and population 150, with radius 500 it returns 1 block and
\* population 100, with radius 3,000,000 it returns a validation error.
C16_Scenario ==
    (pc = "done" /\ disk.kinds = ScenarioKinds /\ req.lat = <<TRUE, 10>>
        /\ req.lon = <<TRUE, 10>>) =>
        /\ req.distance = <<TRUE, 1500>> =>
              (resp.status = 200 /\ resp.blocks = 2 /\ resp.pop2010 = 150)
        /\ req.distance = <<TRUE, 500>> =>
              (resp.status = 200 /\ resp.blocks = 1 /\ resp.pop2010 = 100)
        /\ req.distance = <<TRUE, 3000000>> => resp = HS400

\* C16 witness: the query at A with radius 1500 was answered with A and B.
C16_Witness ==
    /\ pc = "done"
    /\ disk.kinds = ScenarioKinds
    /\ req.distance = <<TRUE, 1500>>
    /\ resp.status = 200
    /\ resp.blocks = 2
    /\ resp.pop2010 = 150
    /\ resp.pop2010_female = 90

\* the binary file can be opened and ends on a record boundary
FileWhole == disk.fault # "nobin" /\ FileSize % RecordSize = 0

\* a result with no block, no people and every age bracket empty
EmptyResult(r) ==
    /\ r.status = 200
    /\ r.blocks = 0
    /\ r.pop2010 = 0
    /\ r.pop2010_male = 0
    /\ r.pop2010_female = 0
    /\ r.ages_male = [b \in 1..(PyrLen - 1) |-> 0]
    /\ r.ages_female = [b \in 1..(PyrLen - 1) |-> 0]

\* C17: an empty match is a success: an in-domain query that matched no
\* record is answered 200 with block count 0, population 0, gender totals 0
\* and every bucket 0; the store-backed query makes no lookup, so none
\* fails even when the store misses a key; the binary scan does so
\* whenever its file is whole.
C17_EmptyMatchIsSuccess ==
    (pc = "done" /\ InDomain) =>
        /\ (req.variant = "store" /\ keys = <<>>) =>
              (EmptyResult(resp) /\ audit.lookups = 0)
        /\ (req.variant = "bin" /\ audit.matched = <<>> /\ FileWhole) =>
              EmptyResult(resp)

\* C17 witness: a store-backed query of radius 1 on a dataset whose store
\* misses a key matched nothing and was answered 200 with zero blocks.
C17_Witness ==
    /\ pc = "done"
    /\ req.variant = "store"
    /\ req.distance = <<TRUE, 1>>
    /\ disk.fault = "nokey"
    /\ Len(poplocs) >= 1
    /\ audit.reads = Len(poplocs)
    /\ keys = <<>>
    /\ resp.status = 200
    /\ resp.blocks = 0

\* the sum of the elements b..Len(f) of a sequence of numbers
RECURSIVE SumFrom(_, _)
SumFrom(f, b) == IF b > Len(f) THEN 0 ELSE f[b] + SumFrom(f, b + 1)

\* in every block of the dataset the 23 brackets of a gender add up to the
\* population of the gender
DataConsistent ==
    \A i \in 1..Len(disk.kinds) :
        LET ext == BinRecord(i).ext
        IN  /\ SumFrom(SubSeq(ext, 3, 25), 1) = ext[2]
            /\ SumFrom(SubSeq(ext, 27, 49), 1) = ext[26]

\* C18: pyramid consistency: over a consistent dataset every result reports
\* 23 buckets per gender (slot 0 left out) whose sum is the reported total
\* of the gender.
C18_PyramidConsistent ==
    (pc = "done" /\ resp.status = 200 /\ DataConsistent) =>
        /\ Len(resp.ages_male) = 23
        /\ Len(resp.ages_female) = 23
        /\ SumFrom(resp.ages_male, 1) = resp.pop2010_male
        /\ SumFrom(resp.ages_female, 1) = resp.pop2010_female

\* the number of points the usage text of geocircle gives for a level
DocumentedPoints(level) ==
    CASE level = 1 -> 360
      [] level = 2 -> 720
      [] level = 3 -> 1440
      [] level = 4 -> 2880
      [] level = 5 -> 5760

\* C19: the geocircle path has the documented number of points: count and
\* the length of path are 360, 720, 1440, 2880 (5760) for level 1, 2, 3, 4
\* (5).
C19_GeoCirclePointCount ==
    (pc = "done" /\ req.endpoint = "geocircle" /\ resp.status = 200) =>
        /\ resp.count = DocumentedPoints(req.level[2])
        /\ Len(resp.path) = DocumentedPoints(req.level[2])

\* C20: the great-ellipse path has exactly {count} points for every
\* accepted count in 3..1001: the reported count and the length of path
\* equal the requested count, the first path point is the source and the
\* last is the target (as reported, to 6 decimals), and a count outside
\* 3..1001 is answered 400.
C20_GreatEllPointCount ==
    (pc = "done" /\ req.endpoint = "greatell") =>
        /\ ~(req.count[1] /\ req.count[2] >= 3 /\ req.count[2] <= 1001) =>
              resp = HS400
        /\ resp.status = 200 =>
              /\ req.count[2] >= 3 /\ req.count[2] <= 1001
              /\ resp.count = req.count[2]
              /\ Len(resp.path) = req.count[2]
              /\ resp.path[1].lat = round6(req.lat1[2])
              /\ resp.path[1].lon = round6(req.lon1[2])
              /\ resp.path[Len(resp.path)].lat = round6(req.lat2[2])
              /\ resp.path[Len(resp.path)].lon = round6(req.lon2[2])
              /\ resp.source = [lat |-> resp.path[1].lat,
                                lon |-> resp.path[1].lon]
              /\ resp.target = [lat |-> resp.path[Len(resp.path)].lat,
                                lon |-> resp.path[Len(resp.path)].lon]

\* C20 witness: a path of 1001 points between two positions given to 7
\* decimals was generated.
C20_Witness ==
    /\ pc = "done"
    /\ req.endpoint = "greatell"
    /\ resp.status = 200
    /\ req.count = <<TRUE, 1001>>
    /\ Len(resp.path) = 1001
    /\ req.lat1 = <<TRUE, 123456785>>
    /\ resp.source.lat = 123456790
    /\ resp.target.lon = 1800000000

\* the response of /compute to a posted body
UnsortedResponse(body) ==
    LET out == CHOOSE o \in matloc(LocOf(body), FALSE) : TRUE
    IN  out[Len(out)]

\* how many entries of the list equal e
Occurrences(L, e) == Cardinality({ k \in 1..Len(L) : L[k] = e })

\* one entry for each unordered pair of distinct locations of the body
OneEntryPerPair(body, L) ==
    \A i \in 1..Len(body.ids) : \A j \in 1..Len(body.ids) :
        (i < j) =>
            Cardinality({ k \in 1..Len(L) :
                {L[k].id1, L[k].id2} = {body.ids[i], body.ids[j]} }) = 1

\* C21: an accepted geomatrix list of n locations is answered with
\* n(n-1)/2 entries; /compute has exactly one entry for each unordered
\* pair of distinct locations, and /compute/sort answers the same entries
\* rearranged in nondecreasing km.
C21_SortedPermutation ==
    (pc = "done" /\ req.endpoint = "geomatrix" /\ resp.status = 200) =>
        LET n == Len(req.body.ids)
            L == resp.distances
            U == UnsortedResponse(req.body).distances
        IN  /\ 2 * resp.count = n * (n - 1)
            /\ Len(L) = resp.count
            /\ ~req.dosort => OneEntryPerPair(req.body, L)
            /\ req.dosort =>
                /\ \A k \in 1..(Len(L) - 1) : L[k].km <= L[k + 1].km
                /\ Len(L) = Len(U)
                /\ \A e \in Range(L) \cup Range(U) :
                       Occurrences(L, e) = Occurrences(U, e)

\* a sorted answer of three entries that had to be rearranged and holds
\* two entries of the same km
C21_Witness ==
    /\ pc = "done"
    /\ req.endpoint = "geomatrix"
    /\ req.dosort
    /\ resp.status = 200
    /\ resp.count = 3
    /\ resp.distances # UnsortedResponse(req.body).distances
    /\ resp.distances[2].km = resp.distances[3].km
    /\ resp.distances[1].km < resp.distances[2].km

\* the goroutines of handler p are running
KRunning(p) == kfun[p].go # {}

\* C22: while the K-function goroutines of a request run, the process-wide
\* CPU limit is the {ncpu} of that request.
C22_NcpuBoundsRequest ==
    \A p \in Procs : KRunning(p) => gomaxprocs = kfun[p].ncpu[2]

\* handler p has declared h and called compute()
KComputed(p) ==
    \/ kfun[p].pc = "wait"
    \/ kfun[p].pc = "done" /\ kfun[p].resp.status = 200

\* C27: every element of h is assigned by the goroutine of its own index
\* and by no other, at most once, and a kfunction response carries an
\* array of which every element K(0)..K(D-1) has been assigned.
C27_ResponseAfterAllWorkers ==
    \A p \in Procs :
        /\ KComputed(p) =>
             \A k \in Slots :
                 /\ Len(kfun[p].h[k]) <= 1
                 /\ \A i \in 1..Len(kfun[p].h[k]) : kfun[p].h[k][i] = k
        /\ (kfun[p].pc = "done" /\ kfun[p].resp.status = 200) =>
             /\ kfun[p].go = {}
             /\ \A k \in Slots : kfun[p].resp.kfunction[k] = k

\* two requests at once: one has answered with the whole array while the
\* goroutines of the other are half way
C27_Witness ==
    \E p \in Procs, q \in Procs :
        /\ p # q
        /\ kfun[p].pc = "done"
        /\ kfun[p].resp.status = 200
        /\ \A k \in Slots : kfun[p].resp.kfunction[k] = k
        /\ kfun[q].pc = "wait"
        /\ kfun[q].go # {}
        /\ kfun[q].go # Slots

\* C23: the binary scan reports, for the records it matched, the exact
\* sum of every population total and of every age bucket of both genders.
C23_TotalsDoNotWrap ==
    (pc = "done" /\ req.variant = "bin" /\ resp.status = 200) =>
        LET M == Range(audit.matched)
        IN  /\ resp.pop2010 = SumField(M, 0)
            /\ resp.pop2010_male = SumField(M, 1)
            /\ resp.pop2010_female = SumField(M, 25)
            /\ \A b \in 1..(PyrLen - 1) :
                 /\ resp.ages_male[b] = SumField(M, 1 + b)
                 /\ resp.ages_female[b] = SumField(M, 25 + b)

(***************************************************************************)
(* The byte layout the binary scan decodes a record with.                  *)
(***************************************************************************)
colid == 0
colpop == colid + 9
collat == colpop + 4
collon == collat + 8
colx == collon + 8
coly == colx + 8
colz == coly + 8
colmpop == colz + 8 + 2
colfpop == colz + 8 + 2 + 2 * PyrLen

\* the compact layout ends with z
CompactSize == colz + 8

\* record[col : col+2], the bytes decoded as the population of a gender
PopBytes(col) == col..(col + 1)

\* record[col+2*ix : col+2*(ix+1)], the bytes decoded as slot ix
SlotBytes(col, ix) == (col + 2 * ix)..(col + 2 * (ix + 1) - 1)

\* the scan has decoded the population fields of a record
Decoded == req.variant = "bin" /\ pc = "scan" /\ audit.matched # <<>>

\* C24: the decoder reads, right after the compact bytes and one after the
\* other, the male population, 24 male slots, the female population and 24
\* female slots; the population bytes of a gender are none of its slots'
\* bytes, and the record length is the sum of the field widths.
C24_ExtendedLayout ==
    Decoded =>
        /\ colmpop = CompactSize
        /\ SlotBytes(colmpop, 0) = PopBytes(colmpop + 2)
        /\ colfpop = colmpop + 2 + 2 * PyrLen
        /\ \A ix \in 0..(PyrLen - 1) :
             /\ PopBytes(colmpop) \cap SlotBytes(colmpop, ix) = {}
             /\ PopBytes(colfpop) \cap SlotBytes(colfpop, ix) = {}
        /\ RecordSize = CompactSize + 2 + 2 * PyrLen + 2 + 2 * PyrLen

\* C25: two-phase ordering: the exact distance is computed only for records
\* whose stored x, y and z are all inside the cube of the query, no record
\* reaches it twice, and a scan examines every record at most once.
C25_TwoPhaseOrdering ==
    /\ \A k \in 1..Len(audit.exact) :
          LET loc == BinRecord(audit.exact[k])
          IN  /\ cube[1] <= loc.x /\ loc.x <= cube[2]
              /\ cube[3] <= loc.y /\ loc.y <= cube[4]
              /\ cube[5] <= loc.z /\ loc.z <= cube[6]
    /\ \A k \in 1..Len(audit.exact) : \A l \in 1..Len(audit.exact) :
          k # l => audit.exact[k] # audit.exact[l]
    /\ audit.reads <= Len(disk.kinds)
    /\ pc \in {"geosearch", "scan"} => audit.reads = idx - 1

\* a finished scan that turned a record down on an axis without computing
\* its distance and computed the distance of another one
C25_Witness ==
    /\ pc \in {"popsearch", "finish", "returned"}
    /\ audit.reads = Len(disk.kinds)
    /\ Len(audit.exact) >= 1
    /\ audit.reads > Len(audit.exact)
    /\ \E i \in 1..Len(disk.kinds) :
          /\ cube[1] <= BinRecord(i).x /\ BinRecord(i).x <= cube[2]
          /\ ~(/\ cube[3] <= BinRecord(i).y /\ BinRecord(i).y <= cube[4]
               /\ cube[5] <= BinRecord(i).z /\ BinRecord(i).z <= cube[6])

\* what a finished query has done: the file opened at most once, every
\* record read at most once and, for a result, every record read; every id
\* looked up at most once
RanOnce ==
    /\ audit.opens <= 1
    /\ audit.reads <= Len(disk.kinds)
    /\ audit.lookups <= Len(keys)
    /\ (pc = "done" /\ resp.status = 200) =>
          /\ audit.reads = Len(disk.kinds)
          /\ req.variant = "store" => audit.lookups = Len(keys)
    /\ (pc = "done" /\ resp.status = 500) =>
          \/ req.variant = "store" /\ disk.fault = "nokey"
          \/ req.variant = "bin" /\ disk.fault \in {"nobin", "partial"}

\* C26: every pop2010 query terminates: the handler that has received a
\* request reaches its return with a response, a result or an error, after
\* at most one pass over the dataset and with no read or lookup repeated.
C26_QueryTerminates ==
    /\ [] RanOnce
    /\ (pc = "validate") ~> (pc = "done" /\ resp.status \in {200, 400, 500})

\* a query that ended on a short read after reading the whole records, and
\* one that ended on a failed lookup
C26_Witness ==
    /\ pc = "done"
    /\ resp.status = 500
    /\ \/ /\ req.variant = "bin"
          /\ disk.fault = "partial"
          /\ audit.reads = Len(disk.kinds)
          /\ audit.reads >= 1
       \/ /\ req.variant = "store"
          /\ disk.fault = "nokey"
          /\ audit.lookups >= 1

=============================================================================
